---- MODULE Spec2Model ----
(***************************************************************************)
(* CordysCRM REST API smoke test (installer/shells/test-restapi.py).       *)
(*                                                                         *)
(* The script builds one CordysCRMTester, runs twenty fixed groups of      *)
(* test_get / test_post calls against a server, prints a summary,          *)
(* optionally dumps the result log as JSON and exits with 0 or 1.          *)
(*                                                                         *)
(* The server and the HTTP client library are the environment: every call  *)
(* resolves to an outcome (a response, a timeout, another exception) that  *)
(* the model draws from Outcomes.  In one run the requests resolve the way *)
(* of a server that is up, or of one that is unreachable, except for at    *)
(* most one request, which resolves in any way.  The POST payloads and the *)
(* descriptions only reach the server and the console and are left out of  *)
(* the steps.                                                              *)
(***************************************************************************)
EXTENDS Integers, Sequences, FiniteSets, TLC

VARIABLES
    timeout,     \* self.timeout (seconds), fixed at construction
    results,     \* self.results: the ordered log of TestResult records
    pc,          \* position of main
    group,       \* run_all_tests: the group being executed (1..20)
    step,        \* index of the next statement of that group
    call,        \* the request that resolved last, how it resolved and the
                 \* TestResult as the call constructed it
    swagger,     \* console verdict of the Swagger UI check
    summary,     \* what _print_summary printed (<<>> before it ran)
    file,        \* the output file of save_results
    exit_code,   \* <<>> while the process runs, <<n>> once it has ended
    server,      \* environment: how requests resolve by default
    faulted      \* environment: one request has resolved differently

vars == << timeout, results, pc, group, step, call, swagger, summary, file,
           exit_code, server, faulted >>

(***************************************************************************)
(* Bounds of the model.                                                    *)
(***************************************************************************)
\* --timeout values tried besides the default: 1..MaxTimeout seconds
MaxTimeout == 1

\* --timeout default (argparse)
DefaultTimeout == 30

Timeouts == (1..MaxTimeout) \cup {DefaultTimeout}

(***************************************************************************)
(* Python values as they are stored in a TestResult and the JSON text the  *)
(* server sends.  response_body is None, a str or a parsed JSON value.     *)
(***************************************************************************)
PyNone == [py |-> "None"]
PyStr(s) == [py |-> "str", s |-> s]
PyNum(n) == [py |-> "int", n |-> n]
PyBool(b) == [py |-> "bool", b |-> b]
PyDict(items) == [py |-> "dict", items |-> items]
PyList(elems) == [py |-> "list", elems |-> elems]

\* Response texts: a JSON document, a text that is not JSON, no text.
BodyJson == "{\"code\": 100200, \"message\": null}"
BodyPlain == "Not Found"
BodyEmpty == ""

JSONDecodeError == [py |-> "raise JSONDecodeError"]

\* json.loads on the bodies above: the parsed value, or JSONDecodeError raised
json_loads(text) ==
    IF text = BodyJson
    THEN PyDict([code |-> PyNum(100200), message |-> PyNone])
    ELSE JSONDecodeError

\* _safe_parse_json: the parsed value, the raw text when it is not JSON
safe_parse_json(text) ==
    IF json_loads(text) = JSONDecodeError THEN PyStr(text) ELSE json_loads(text)

(***************************************************************************)
(* How one request resolves: requests returned a response, raised          *)
(* requests.exceptions.Timeout, or raised another Exception whose str() is *)
(* error.  elapsed is the measured wall-clock time in milliseconds.        *)
(***************************************************************************)
Response(sc, text, ms) ==
    [kind |-> "response", status_code |-> sc, text |-> text, elapsed |-> ms]
Timeout == [kind |-> "Timeout"]
Failure(msg) == [kind |-> "Exception", error |-> msg]

\* KeyboardInterrupt: the operator interrupts the process during the request
Interrupt == [kind |-> "KeyboardInterrupt"]

Responses ==
    { Response(200, BodyJson, 12), Response(204, BodyEmpty, 4),
      Response(302, BodyEmpty, 2), Response(404, BodyPlain, 9) }

Failures == { Failure("Connection refused") }

Outcomes == Responses \cup {Timeout} \cup Failures \cup {Interrupt}

\* what a server that is up, and one that is unreachable, answer every time
Defaults == { Response(200, BodyJson, 12), Failure("Connection refused") }

(***************************************************************************)
(* TestResult (dataclass) and the three branches of test_get / test_post.  *)
(***************************************************************************)
TestResult(module, endpoint, method, success, status_code, response_time_ms, error_message, response_body) ==
    [module |-> module, endpoint |-> endpoint, method |-> method,
     success |-> success, status_code |-> status_code,
     response_time_ms |-> response_time_ms, error_message |-> error_message,
     response_body |-> response_body]

\* "Expected 200, got {response.status_code}"
expected_200(status_code) == "Expected 200, got " \o ToString(status_code)

\* test_get, result = TestResult(...) on a response: error_message is left
\* at its default ""
test_get_constructed(path, module, o) ==
    TestResult(module, path, "GET", o.status_code = 200, o.status_code, o.elapsed, "",
               IF o.text # "" THEN safe_parse_json(o.text) ELSE PyNone)

\* test_get_response with every 2xx status counted as a success
test_get_response_any_2xx(path, module, o) ==
    TestResult(module, path, "GET", o.status_code \in 200..299, o.status_code, o.elapsed,
               IF o.status_code = 200 THEN "" ELSE expected_200(o.status_code),
               IF o.text # "" THEN safe_parse_json(o.text) ELSE PyNone)

\* test_get_response with the error message set for 4xx and 5xx only
test_get_response_errors_only(path, module, o) ==
    TestResult(module, path, "GET", o.status_code = 200, o.status_code, o.elapsed,
               IF o.status_code < 400 THEN "" ELSE expected_200(o.status_code),
               IF o.text # "" THEN safe_parse_json(o.text) ELSE PyNone)

\* test_get, a response came back: the record constructed (success iff
\* 200, the measured time, the body parsed if any), then
\* result.error_message assigned when the status is not 200
test_get_response(path, module, o) ==
    LET result == test_get_constructed(path, module, o)
    IN  IF o.status_code = 200 THEN result
        ELSE [result EXCEPT !.error_message = expected_200(o.status_code)]

\* test_get_timeout with the timeout left in seconds
test_get_timeout_in_seconds(path, module) ==
    TestResult(module, path, "GET", FALSE, 0, timeout, "Request timeout", PyNone)

\* test_get, except requests.exceptions.Timeout
test_get_timeout(path, module) ==
    TestResult(module, path, "GET", FALSE, 0, timeout * 1000, "Request timeout", PyNone)

\* test_get, except Exception as e
test_get_exception(path, module, o) ==
    TestResult(module, path, "GET", FALSE, 0, 0, o.error, PyNone)

\* test_get: the record appended when session.get resolves with o
test_get_result(path, module, o) ==
    CASE o.kind = "response" -> test_get_response(path, module, o)
      [] o.kind = "Timeout" -> test_get_timeout(path, module)
      [] o.kind = "Exception" -> test_get_exception(path, module, o)

\* test_post, result = TestResult(...) on a response
test_post_constructed(path, module, o) ==
    TestResult(module, path, "POST", o.status_code = 200, o.status_code, o.elapsed, "",
               IF o.text # "" THEN safe_parse_json(o.text) ELSE PyNone)

\* test_post, a response came back: the record constructed, then
\* result.error_message assigned when the status is not 200
test_post_response(path, module, o) ==
    LET result == test_post_constructed(path, module, o)
    IN  IF o.status_code = 200 THEN result
        ELSE [result EXCEPT !.error_message = expected_200(o.status_code)]

\* test_post_timeout as pasted from test_get, the method left as "GET"
test_post_timeout_as_get(path, module) ==
    TestResult(module, path, "GET", FALSE, 0, timeout * 1000, "Request timeout", PyNone)

\* test_post, except requests.exceptions.Timeout
test_post_timeout(path, module) ==
    TestResult(module, path, "POST", FALSE, 0, timeout * 1000, "Request timeout", PyNone)

\* test_post_exception with a fixed message in place of str(e)
test_post_exception_fixed_message(path, module, o) ==
    TestResult(module, path, "POST", FALSE, 0, 0, "Request failed", PyNone)

\* test_post, except Exception as e
test_post_exception(path, module, o) ==
    TestResult(module, path, "POST", FALSE, 0, 0, o.error, PyNone)

\* test_post: the record appended when session.post resolves with o
test_post_result(path, module, o) ==
    CASE o.kind = "response" -> test_post_response(path, module, o)
      [] o.kind = "Timeout" -> test_post_timeout(path, module)
      [] o.kind = "Exception" -> test_post_exception(path, module, o)

\* caught with the second except clause missing
caught_timeout_only(o) == o.kind = "Timeout"

\* except Exception catches Timeout and every other Exception, and lets a
\* KeyboardInterrupt (a BaseException) through
caught(o) == o.kind \in {"Timeout", "Exception"}

(***************************************************************************)
(* The twenty groups: each a fixed sequence of statements.                 *)
(***************************************************************************)
Get(path, module) == [op |-> "test_get", path |-> path, module |-> module]
Post(path, module) == [op |-> "test_post", path |-> path, module |-> module]
Swagger(path) == [op |-> "session.get", path |-> path, module |-> ""]

\* _test_basic_health: lines 275-293 of test-restapi.py
_test_basic_health ==
    << Get("/v3/api-docs", "Health"),
       Swagger("/swagger-ui/index.html"),
       Get("/system/version", "Health"),
       Post("/locale-language/change", "Health") >>

\* _test_home_statistics: lines 295-304 of test-restapi.py
_test_home_statistics ==
    << Post("/home/statistic/lead", "Home"),
       Post("/home/statistic/opportunity", "Home"),
       Post("/home/statistic/opportunity/underway", "Home"),
       Post("/home/statistic/opportunity/success", "Home"),
       Get("/home/statistic/department/tree", "Home") >>

\* _test_dashboard_module: lines 306-312 of test-restapi.py
_test_dashboard_module ==
    << Get("/dashboard/module/tree", "Dashboard"),
       Get("/dashboard/module/count", "Dashboard") >>

\* _test_customer_module: lines 314-334 of test-restapi.py
_test_customer_module ==
    << Get("/account/module/form", "Customer"),
       Post("/account/page", "Customer"),
       Post("/account/option", "Customer"),
       Get("/account/tab", "Customer"),
       Post("/account/contact/page", "Customer"),
       Get("/account/contact/module/form", "Customer"),
       Get("/account/contact/tab", "Customer"),
       Post("/account/follow/record/page", "Customer"),
       Post("/account/follow/plan/page", "Customer"),
       Post("/account/contract/page", "Customer"),
       Post("/account/contract/payment-plan/page", "Customer"),
       Post("/account/contract/payment-record/page", "Customer"),
       Post("/account/invoice/page", "Customer") >>

\* _test_customer_pool_module: lines 336-343 of test-restapi.py
_test_customer_pool_module ==
    << Post("/account-pool/page", "CustomerPool"),
       Post("/pool/account/page", "CustomerPool"),
       Get("/pool/account/options", "CustomerPool") >>

\* _test_clue_module: lines 345-359 of test-restapi.py
_test_clue_module ==
    << Get("/lead/module/form", "Clue"),
       Post("/lead/page", "Clue"),
       Get("/lead/tab", "Clue"),
       Post("/lead/follow/record/page", "Clue"),
       Post("/lead/follow/plan/page", "Clue"),
       Post("/lead-pool/page", "Clue"),
       Post("/pool/lead/page", "Clue"),
       Get("/pool/lead/options", "Clue") >>

\* _test_opportunity_module: lines 361-374 of test-restapi.py
_test_opportunity_module ==
    << Get("/opportunity/module/form", "Opportunity"),
       Post("/opportunity/page", "Opportunity"),
       Post("/opportunity/statistic", "Opportunity"),
       Get("/opportunity/tab", "Opportunity"),
       Post("/opportunity/follow/record/page", "Opportunity"),
       Post("/opportunity/follow/plan/page", "Opportunity"),
       Get("/opportunity/stage/get", "Opportunity") >>

\* _test_product_module: lines 376-386 of test-restapi.py
_test_product_module ==
    << Get("/product/module/form", "Product"),
       Post("/product/page", "Product"),
       Get("/product/list/option", "Product"),
       Post("/price/page", "Product"),
       Get("/price/module/form", "Product") >>

\* _test_contract_module: lines 388-405 of test-restapi.py
_test_contract_module ==
    << Get("/contract/module/form", "Contract"),
       Post("/contract/page", "Contract"),
       Get("/contract/tab", "Contract"),
       Post("/contract/payment-plan/page", "Contract"),
       Get("/contract/payment-plan/module/form", "Contract"),
       Get("/contract/payment-plan/tab", "Contract"),
       Post("/contract/payment-record/page", "Contract"),
       Get("/contract/payment-record/module/form", "Contract"),
       Get("/contract/payment-record/tab", "Contract"),
       Post("/contract/business-title/page", "Contract") >>

\* _test_invoice_module: lines 407-414 of test-restapi.py
_test_invoice_module ==
    << Post("/invoice/page", "Invoice"),
       Get("/invoice/module/form", "Invoice"),
       Get("/invoice/tab", "Invoice") >>

\* _test_view_management: lines 416-433 of test-restapi.py
_test_view_management ==
    << Get("/account/view/list", "View"),
       Get("/account/contact/view/list", "View"),
       Get("/pool/account/view/list", "View"),
       Get("/lead/view/list", "View"),
       Get("/pool/lead/view/list", "View"),
       Get("/opportunity/view/list", "View"),
       Get("/contract/view/list", "View"),
       Get("/contract/payment-plan/view/list", "View"),
       Get("/contract/payment-record/view/list", "View"),
       Get("/invoice/view/list", "View") >>

\* _test_search_module: lines 435-454 of test-restapi.py
_test_search_module ==
    << Post("/global/search/account", "Search"),
       Post("/global/search/customer_pool", "Search"),
       Post("/global/search/contact", "Search"),
       Post("/global/search/lead", "Search"),
       Post("/global/search/clue_pool", "Search"),
       Post("/global/search/opportunity", "Search"),
       Post("/advanced/search/account", "Search"),
       Post("/advanced/search/account-pool", "Search"),
       Post("/advanced/search/contact", "Search"),
       Post("/advanced/search/lead", "Search"),
       Post("/advanced/search/lead-pool", "Search"),
       Post("/advanced/search/opportunity", "Search"),
       Get("/global/search/module/count", "Search") >>

\* _test_follow_up_module: lines 456-468 of test-restapi.py
_test_follow_up_module ==
    << Post("/follow/record/page", "Follow"),
       Get("/follow/record/tab", "Follow"),
       Post("/follow/plan/page", "Follow"),
       Get("/follow/plan/tab", "Follow"),
       Get("/follow/record/view/list", "Follow"),
       Get("/follow/plan/view/list", "Follow") >>

\* _test_system_module: lines 470-486 of test-restapi.py
_test_system_module ==
    << Get("/module/list", "System"),
       Get("/module/user/dept/tree", "System"),
       Get("/module/role/tree", "System"),
       Get("/module/advanced-search/settings", "System"),
       Get("/dict/get/ACCOUNT", "System"),
       Get("/dict/config", "System"),
       Get("/search/config/get", "System"),
       Get("/mask/config/get", "System"),
       Get("/navigation/list", "System") >>

\* _test_organization_module: lines 488-493 of test-restapi.py
_test_organization_module ==
    << Get("/department/tree", "Organization") >>

\* _test_role_permission_module: lines 495-502 of test-restapi.py
_test_role_permission_module ==
    << Get("/role/list", "Role"),
       Get("/role/user/dept/tree", "Role"),
       Get("/role/dept/tree", "Role") >>

\* _test_message_notification_module: lines 504-510 of test-restapi.py
_test_message_notification_module ==
    << Post("/notification/list/all/page", "Message"),
       Get("/notification/count", "Message") >>

\* _test_personal_center_module: lines 512-522 of test-restapi.py
_test_personal_center_module ==
    << Get("/personal/center/info", "Personal"),
       Post("/personal/center/follow/plan/list", "Personal"),
       Post("/export/center/list", "Personal"),
       Get("/user/api/key/list", "Personal") >>

\* _test_file_management_module: lines 524-531 of test-restapi.py
_test_file_management_module ==
    << Post("/pic/upload/temp", "File"),
       Post("/attachment/upload/temp", "File") >>

\* _test_agent_module: lines 533-541 of test-restapi.py
_test_agent_module ==
    << Post("/agent/page", "Agent"),
       Get("/agent/option", "Agent"),
       Get("/agent/module/tree", "Agent"),
       Get("/agent/module/count", "Agent") >>

\* run_all_tests: the groups in the order they are called
run_all_tests ==
    << _test_basic_health, _test_home_statistics, _test_dashboard_module,
       _test_customer_module, _test_customer_pool_module, _test_clue_module,
       _test_opportunity_module, _test_product_module, _test_contract_module,
       _test_invoice_module, _test_view_management, _test_search_module,
       _test_follow_up_module, _test_system_module, _test_organization_module,
       _test_role_permission_module, _test_message_notification_module,
       _test_personal_center_module, _test_file_management_module,
       _test_agent_module >>

(***************************************************************************)
(* json.dump / json.load on the values above, and asdict.                  *)
(***************************************************************************)
RECURSIVE json_dump(_)
json_dump(v) ==
    CASE v.py = "None" -> [json |-> "null"]
      [] v.py = "bool" -> [json |-> IF v.b THEN "true" ELSE "false"]
      [] v.py = "int" -> [json |-> "number", n |-> v.n]
      [] v.py = "str" -> [json |-> "string", s |-> v.s]
      [] v.py = "dict" ->
           [json |-> "object",
            members |-> [k \in DOMAIN v.items |-> json_dump(v.items[k])]]
      [] v.py = "list" ->
           [json |-> "array",
            elems |-> [i \in DOMAIN v.elems |-> json_dump(v.elems[i])]]

RECURSIVE json_load(_)
json_load(j) ==
    CASE j.json = "null" -> PyNone
      [] j.json = "true" -> PyBool(TRUE)
      [] j.json = "false" -> PyBool(FALSE)
      [] j.json = "number" -> PyNum(j.n)
      [] j.json = "string" -> PyStr(j.s)
      [] j.json = "object" ->
           PyDict([k \in DOMAIN j.members |-> json_load(j.members[k])])
      [] j.json = "array" ->
           PyList([i \in DOMAIN j.elems |-> json_load(j.elems[i])])

\* to_dict that leaves response_body out
to_dict_without_body(r) ==
    PyDict([module |-> PyStr(r.module),
            endpoint |-> PyStr(r.endpoint),
            method |-> PyStr(r.method),
            success |-> PyBool(r.success),
            status_code |-> PyNum(r.status_code),
            response_time_ms |-> PyNum(r.response_time_ms),
            error_message |-> PyStr(r.error_message)])

\* TestResult.to_dict: asdict, one key per field of the dataclass
to_dict(r) ==
    PyDict([module |-> PyStr(r.module),
            endpoint |-> PyStr(r.endpoint),
            method |-> PyStr(r.method),
            success |-> PyBool(r.success),
            status_code |-> PyNum(r.status_code),
            response_time_ms |-> PyNum(r.response_time_ms),
            error_message |-> PyStr(r.error_message),
            response_body |-> r.response_body])

\* save_results: what json.dump writes for the log
dumped(log) ==
    json_dump(PyList([i \in 1..Len(log) |-> to_dict(log[i])]))

(***************************************************************************)
(* _print_summary.                                                         *)
(***************************************************************************)
\* sum(1 for r in self.results if r.success)
passed_count(log) == Cardinality({i \in 1..Len(log) : log[i].success})

\* success_rate computed with an integer division, in whole percents
success_rate_truncated(passed, total) == ((passed * 100) \div total) * 10

\* f"{(passed/total*100):.1f}" in tenths of a percent: the nearest tenth
success_rate(passed, total) ==
    LET q == (passed * 1000) \div total
        r == (passed * 1000) % total
    IN  IF 2 * r > total \/ (2 * r = total /\ q % 2 = 1) THEN q + 1 ELSE q

\* the "Failed Tests" listing: one entry per failed record, in log order
failed_tests(log) ==
    LET failing == SelectSeq(log, LAMBDA r : ~r.success)
    IN  [i \in 1..Len(failing) |->
           [module |-> failing[i].module, method |-> failing[i].method,
            endpoint |-> failing[i].endpoint, status |-> failing[i].status_code,
            error |-> failing[i].error_message]]

\* what _print_summary prints for the log
summary_of(log) ==
    LET total == Len(log)
        passed == passed_count(log)
        failed == total - passed
    IN  [total |-> total, passed |-> passed, failed |-> failed,
         rate |-> success_rate(passed, total),
         failed_tests |-> IF failed > 0 THEN failed_tests(log) ELSE << >>,
         verdict |-> IF failed = 0 THEN "All tests passed!"
                     ELSE "Some tests failed"]

(***************************************************************************)
(* The state machine.                                                      *)
(***************************************************************************)
NoCall == [op |-> "none"]
NoFile == [state |-> "absent"]

\* the statement run_all_tests is about to execute
Statement == run_all_tests[group][step]

\* Advance that runs a statement a second time when its request failed
Advance_retry_failed ==
    IF /\ call'.outcome.kind # "response"
       /\ (call.op = "none" \/ call.path # Statement.path)
    THEN UNCHANGED << group, step, pc >>
    ELSE IF step < Len(run_all_tests[group])
         THEN /\ step' = step + 1
              /\ UNCHANGED << group, pc >>
         ELSE IF group < Len(run_all_tests)
              THEN /\ group' = group + 1
                   /\ step' = 1
                   /\ UNCHANGED pc
              ELSE /\ pc' = "summary"
                   /\ UNCHANGED << group, step >>

\* move to the statement after the current one: the next of the group, the
\* first of the next group, or _print_summary after the last group
Advance ==
    IF step < Len(run_all_tests[group])
    THEN /\ step' = step + 1
         /\ UNCHANGED << group, pc >>
    ELSE IF group < Len(run_all_tests)
         THEN /\ group' = group + 1
              /\ step' = 1
              /\ UNCHANGED pc
         ELSE /\ pc' = "summary"
              /\ UNCHANGED << group, step >>

\* the environment resolves a request the default way or, once in a run,
\* any other way
Resolve(o) ==
    /\ \/ o = server /\ faulted' = faulted
       \/ o # server /\ ~faulted /\ faulted' = TRUE
    /\ UNCHANGED server

\* Uncaught with run_all_tests in a try/finally that goes on to the summary
Uncaught_then_summary(o) ==
    /\ pc' = "summary"
    /\ exit_code' = exit_code

\* an exception nobody catches: the traceback is printed and the process
\* ends there (a KeyboardInterrupt ends it with the signal's status)
Uncaught(o) ==
    /\ pc' = IF o.kind = "KeyboardInterrupt" THEN "interrupted" ELSE "crashed"
    /\ exit_code' = IF o.kind = "KeyboardInterrupt" THEN << 130 >> ELSE << 1 >>

Init ==
    /\ timeout \in Timeouts
    /\ results = << >>
    /\ pc = "run"
    /\ group = 1
    /\ step = 1
    /\ call = NoCall
    /\ swagger = "none"
    /\ summary = << >>
    /\ file = NoFile
    /\ exit_code = << >>
    /\ server \in Defaults
    /\ faulted = FALSE

\* self.test_get(path, module, ...)
test_get ==
    /\ pc = "run"
    /\ Statement.op = "test_get"
    /\ \E o \in Outcomes :
         /\ Resolve(o)
         /\ call' = [op |-> "test_get", path |-> Statement.path,
                     module |-> Statement.module, outcome |-> o,
                     constructed |->
                        IF o.kind = "response"
                        THEN << test_get_constructed(Statement.path, Statement.module, o) >>
                        ELSE IF caught(o)
                        THEN << test_get_result(Statement.path, Statement.module, o) >>
                        ELSE << >>]
         /\ IF o.kind # "response" /\ ~caught(o)
            THEN /\ Uncaught(o)
                 /\ UNCHANGED << results, group, step >>
            ELSE /\ results' = Append(results,
                      test_get_result(Statement.path, Statement.module, o))
                 /\ Advance
                 /\ UNCHANGED exit_code
    /\ UNCHANGED << timeout, swagger, summary, file >>

\* self.test_post(path, data, module, ...)
test_post ==
    /\ pc = "run"
    /\ Statement.op = "test_post"
    /\ \E o \in Outcomes :
         /\ Resolve(o)
         /\ call' = [op |-> "test_post", path |-> Statement.path,
                     module |-> Statement.module, outcome |-> o,
                     constructed |->
                        IF o.kind = "response"
                        THEN << test_post_constructed(Statement.path, Statement.module, o) >>
                        ELSE IF caught(o)
                        THEN << test_post_result(Statement.path, Statement.module, o) >>
                        ELSE << >>]
         /\ IF o.kind # "response" /\ ~caught(o)
            THEN /\ Uncaught(o)
                 /\ UNCHANGED << results, group, step >>
            ELSE /\ results' = Append(results,
                      test_post_result(Statement.path, Statement.module, o))
                 /\ Advance
                 /\ UNCHANGED exit_code
    /\ UNCHANGED << timeout, swagger, summary, file >>

\* swagger_verdict with the strict rule of test_get
swagger_verdict_200_only(o) ==
    IF o.kind = "response"
    THEN IF o.status_code = 200 THEN "OK" ELSE "FAILED"
    ELSE "ERROR"

\* the console line of the Swagger UI check for outcome o
swagger_verdict(o) ==
    IF o.kind = "response"
    THEN IF o.status_code \in {200, 302} THEN "OK" ELSE "FAILED"
    ELSE "ERROR"

\* _test_basic_health: the direct request to /swagger-ui/index.html
swagger_ui ==
    /\ pc = "run"
    /\ Statement.op = "session.get"
    /\ \E o \in Outcomes :
         /\ Resolve(o)
         /\ call' = [op |-> "session.get", path |-> Statement.path,
                     module |-> Statement.module, outcome |-> o]
         /\ IF o.kind # "response" /\ ~caught(o)
            THEN /\ Uncaught(o)
                 /\ UNCHANGED << swagger, group, step >>
            ELSE /\ swagger' = swagger_verdict(o)
                 /\ Advance
                 /\ UNCHANGED exit_code
    /\ UNCHANGED << timeout, results, summary, file >>

\* _print_summary that drops the response bodies of the records it read
_print_summary_drops_bodies ==
    /\ pc = "summary"
    /\ summary' = summary_of(results)
    /\ results' = [i \in 1..Len(results) |->
                      [results[i] EXCEPT !.response_body = PyNone]]
    /\ pc' = "ran"
    /\ UNCHANGED << timeout, group, step, call, swagger, file, exit_code,
                    server, faulted >>

\* self._print_summary(), after the last group; passed/total raises
\* ZeroDivisionError on an empty log
_print_summary ==
    /\ pc = "summary"
    /\ IF Len(results) = 0
       THEN /\ summary' = [total |-> 0, passed |-> 0, failed |-> 0]
            /\ pc' = "crashed"
            /\ exit_code' = << 1 >>
       ELSE /\ summary' = summary_of(results)
            /\ pc' = "ran"
            /\ UNCHANGED exit_code
    /\ UNCHANGED << timeout, results, group, step, call, swagger, file,
                    server, faulted >>

\* main: --output was not given
no_output ==
    /\ pc = "ran"
    /\ pc' = "exit"
    /\ UNCHANGED << timeout, results, group, step, call, swagger, summary,
                    file, exit_code, server, faulted >>

\* main: --output FILE, and tester.save_results(FILE) writes the file
save_results ==
    /\ pc = "ran"
    /\ file' = [state |-> "written", text |-> dumped(results)]
    /\ pc' = "exit"
    /\ UNCHANGED << timeout, results, group, step, call, swagger, summary,
                    exit_code, server, faulted >>

\* save_results_raises with the OSError caught and only logged
save_results_raises_caught ==
    /\ pc = "ran"
    /\ file' = [state |-> "failed"]
    /\ pc' = "exit"
    /\ UNCHANGED << timeout, results, group, step, call, swagger, summary,
                    exit_code, server, faulted >>

\* main: --output FILE, and open() or the write raises OSError
save_results_raises ==
    /\ pc = "ran"
    /\ file' = [state |-> "failed"]
    /\ Uncaught([kind |-> "OSError"])
    /\ UNCHANGED << timeout, results, group, step, call, swagger, summary,
                    server, faulted >>

\* exit_status that tolerates one failure
exit_status_more_than_one(log) ==
    LET failed == Cardinality({i \in 1..Len(log) : ~log[i].success})
    IN  IF failed > 1 THEN 1 ELSE 0

\* main: failed = sum(1 for r in tester.results if not r.success), and the
\* status 1 if failed > 0 else 0
exit_status(log) ==
    LET failed == Cardinality({i \in 1..Len(log) : ~log[i].success})
    IN  IF failed > 0 THEN 1 ELSE 0

\* main: sys.exit(...)
sys_exit ==
    /\ pc = "exit"
    /\ exit_code' = << exit_status(results) >>
    /\ pc' = "done"
    /\ UNCHANGED << timeout, results, group, step, call, swagger, summary,
                    file, server, faulted >>

Next ==
    \/ test_get
    \/ test_post
    \/ swagger_ui
    \/ _print_summary
    \/ no_output
    \/ save_results
    \/ save_results_raises
    \/ sys_exit

Spec == Init /\ [][Next]_vars

\* the script is one sequential thread: while a statement is left to run, it
\* runs
FairSpec == Spec /\ WF_vars(Next)
(***************************************************************************)
(* Properties.                                                             *)
(***************************************************************************)
\* the record the last test_get / test_post call appended
LastRecord == results[Len(results)]

\* the last request was a test_get / test_post call that resolved as kind
Resolved(kind) ==
    /\ call.op \in {"test_get", "test_post"}
    /\ call.outcome.kind = kind

\* C1: every record of the result log, whatever call and outcome produced
\* it, has success = TRUE exactly when its status_code is 200.
C1_SuccessIffStatus200 ==
    \A i \in 1..Len(results) :
        results[i].success <=> (results[i].status_code = 200)

\* C1 witness: a log that holds a passed record next to a failed one whose
\* response was received with another 2xx status.
C1_Witness ==
    \E i, j \in 1..Len(results) :
        /\ results[i].success /\ results[i].status_code = 200
        /\ ~results[j].success /\ results[j].status_code = 204

\* C5: a test_get / test_post call that times out appends a record with
\* success = FALSE, status_code = 0, response_time_ms = timeout * 1000 and
\* error_message = "Request timeout".
C5_TimeoutRecord ==
    Resolved("Timeout") =>
        /\ Len(results) > 0
        /\ LastRecord.endpoint = call.path
        /\ LastRecord.success = FALSE
        /\ LastRecord.status_code = 0
        /\ LastRecord.response_time_ms = timeout * 1000
        /\ LastRecord.error_message = "Request timeout"

\* C5 witness: a test_get call has just timed out under a timeout other
\* than the default, after earlier calls.
C5_Witness ==
    /\ Resolved("Timeout")
    /\ call.op = "test_get"
    /\ timeout # DefaultTimeout
    /\ Len(results) > 1
    /\ LastRecord.response_time_ms = timeout * 1000

Expected200Got(n) ==
    CASE n = 204 -> "Expected 200, got 204"
      [] n = 302 -> "Expected 200, got 302"
      [] n = 404 -> "Expected 200, got 404"
      [] OTHER -> "Expected 200, got another status"

\* C7: a response received with status N is recorded with status_code = N
\* and with error_message "" when N = 200, "Expected 200, got N" otherwise.
C7_ResponseRecord ==
    Resolved("response") =>
        /\ Len(results) > 0
        /\ LastRecord.endpoint = call.path
        /\ LastRecord.status_code = call.outcome.status_code
        /\ LastRecord.error_message =
              IF call.outcome.status_code = 200 THEN ""
              ELSE Expected200Got(call.outcome.status_code)

\* C7 witness: a test_get call has just received a 204.
C7_Witness ==
    /\ Resolved("response")
    /\ call.op = "test_get"
    /\ call.outcome.status_code = 204
    /\ LastRecord.error_message = "Expected 200, got 204"

\* C2 as stated: every run that ends, by sys.exit or by an exception nobody
\* catches, exits with 0 when no record failed and with 1 otherwise.
C2_ExitCodeOfEveryRun ==
    pc \in {"done", "crashed"} =>
        exit_code = << IF \E i \in 1..Len(results) : ~results[i].success
                       THEN 1 ELSE 0 >>

\* C2 amended: a run that reaches sys.exit (no --output, or the file was
\* written) exits with 0 when no record failed and with 1 otherwise; a run
\* whose save step raises ends with status 1 whatever the records say.
C2_ExitCodeAtSysExit ==
    /\ pc = "done" =>
          exit_code = << IF \E i \in 1..Len(results) : ~results[i].success
                         THEN 1 ELSE 0 >>
    /\ pc = "crashed" => exit_code = << 1 >>

\* C2 witness: a run with --output whose file was written and whose single
\* failed record made it exit with 1.
C2_Witness ==
    /\ pc = "done"
    /\ file.state = "written"
    /\ Cardinality({i \in 1..Len(results) : ~results[i].success}) = 1
    /\ exit_code = << 1 >>

\* the test_get / test_post statements of the twenty groups, in call order
LiteralCalls ==
    LET RECURSIVE upto(_)
        upto(g) == IF g = 0 THEN << >> ELSE upto(g - 1) \o run_all_tests[g]
    IN  SelectSeq(upto(Len(run_all_tests)), LAMBDA s : s.op # "session.get")

\* the test_get / test_post statements among the first n of group g
CallsIn(g, n) ==
    Cardinality({s \in 1..n : run_all_tests[g][s].op # "session.get"})

\* the test_get / test_post statements of the groups before group g
RECURSIVE CallsBefore(_)
CallsBefore(g) ==
    IF g = 1 THEN 0
    ELSE CallsBefore(g - 1) + CallsIn(g - 1, Len(run_all_tests[g - 1]))

\* the test_get / test_post statements run_all_tests has gone through
CallsDone ==
    IF pc \in {"run", "interrupted"}
    THEN CallsBefore(group) + CallsIn(group, step - 1)
    ELSE CallsBefore(Len(run_all_tests) + 1)

\* C3: whatever the calls resolve to (200, another status, a timeout, another
\* exception, the Swagger UI check included) the groups run in the order
\* 1..20, none is left before its last statement, and _print_summary is
\* reached unless the operator interrupts; when every request fails with a
\* connection error every call still leaves a record with status_code 0.
C3_EveryGroupRuns ==
    /\ [][ /\ group' \in {group, group + 1}
           /\ group' = group + 1 =>
                 step = Len(run_all_tests[group]) /\ step' = 1
           /\ (group' = group /\ pc' = "run") => step' = step + 1
           /\ (pc = "run" /\ pc' = "summary") =>
                 /\ group = Len(run_all_tests)
                 /\ step = Len(run_all_tests[group]) ]_<< group, step, pc >>
    /\ <>(pc = "ran" \/ pc = "interrupted")
    /\ [](pc \in {"ran", "exit", "done"} /\ server.kind = "Exception" /\ ~faulted =>
            /\ Len(results) = Len(LiteralCalls)
            /\ \A i \in 1..Len(results) : results[i].status_code = 0)

\* C3 witness: the summary was printed after a run in which every request
\* failed with a connection error, one record per call.
C3_Witness ==
    /\ pc = "ran"
    /\ server.kind = "Exception"
    /\ ~faulted
    /\ swagger = "ERROR"
    /\ Len(results) = 113
    /\ \A i \in 1..Len(results) : results[i].status_code = 0

\* C4: every test_get / test_post call appends exactly one record at the
\* end of the log: the log holds one record per call gone through, 113 once
\* run_all_tests has completed, and the i-th record carries the method, path
\* and module of the i-th call.
C4_OneRecordPerCall ==
    /\ Len(LiteralCalls) = 113
    /\ Len(results) = CallsDone
    /\ pc \in {"summary", "ran", "exit", "done", "crashed"} => Len(results) = 113
    /\ LET calls == LiteralCalls
       IN  \A i \in 1..Len(results) :
             /\ results[i].method = IF calls[i].op = "test_get" THEN "GET" ELSE "POST"
             /\ results[i].endpoint = calls[i].path
             /\ results[i].module = calls[i].module

\* C4 witness: a completed run whose calls resolved in different ways, the
\* last record being that of GET /agent/module/count.
C4_Witness ==
    /\ pc = "done"
    /\ Len(results) = 113
    /\ \E i \in 1..Len(results) : results[i].error_message = "Request timeout"
    /\ results[113].endpoint = "/agent/module/count"
    /\ results[113].success

\* C8: when _print_summary runs the log is not empty, so passed/total never
\* divides by zero; total is the log length, passed the number of records
\* with success = TRUE, passed + failed = total, and the rate printed is
\* passed/total*100 to one decimal.
C8_Summary ==
    /\ pc = "summary" => Len(results) > 0
    /\ pc = "crashed" => file.state = "failed"
    /\ pc \in {"ran", "exit", "done"} =>
          /\ summary.total = Len(results)
          /\ summary.total > 0
          /\ summary.passed = Cardinality({i \in 1..Len(results) : results[i].success})
          /\ summary.passed + summary.failed = summary.total
          /\ 2 * (summary.rate * summary.total - summary.passed * 1000) <= summary.total
          /\ 2 * (summary.passed * 1000 - summary.rate * summary.total) <= summary.total

\* C8 witness: a summary of 112 passed and 1 failed records, 99.1 percent.
C8_Witness ==
    /\ pc = "ran"
    /\ summary.total = 113
    /\ summary.passed = 112
    /\ summary.failed = 1
    /\ summary.rate = 991

\* the Swagger UI check is the statement run_all_tests is about to execute
AtSwagger == pc = "run" /\ Statement.op = "session.get"

\* C9: the Swagger UI check counts as OK on 200 or 302 and on nothing else,
\* and leaves the result log unchanged whatever its outcome: no record is
\* ever appended for /swagger-ui/index.html.
C9_SwaggerCheck ==
    /\ [][AtSwagger =>
            /\ results' = results
            /\ call'.outcome.kind = "response" =>
                  (swagger' = "OK" <=> call'.outcome.status_code \in {200, 302})
            /\ call'.outcome.kind \in {"Timeout", "Exception"} =>
                  swagger' = "ERROR"
            /\ call'.outcome.kind = "KeyboardInterrupt" =>
                  swagger' = swagger]_vars
    /\ [](\A i \in 1..Len(results) : results[i].endpoint # "/swagger-ui/index.html")

\* C9 witness: the check has just been answered with a 302 and counted as
\* OK, the log still holding the one record of the call before it.
C9_Witness ==
    /\ call.op = "session.get"
    /\ call.outcome.kind = "response"
    /\ call.outcome.status_code = 302
    /\ swagger = "OK"
    /\ Len(results) = 1

\* the keys of a serialized TestResult
EightKeys ==
    {"module", "endpoint", "method", "success", "status_code",
     "response_time_ms", "error_message", "response_body"}

\* the file, loaded again, is the log: as long, in the same order, each
\* element a dict of the eight keys with the values of its record
Reloaded ==
    LET loaded == json_load(file.text)
    IN  /\ loaded.py = "list"
        /\ DOMAIN loaded.elems = 1..Len(results)
        /\ \A i \in 1..Len(results) :
              LET d == loaded.elems[i]
                  r == results[i]
              IN  /\ d.py = "dict"
                  /\ DOMAIN d.items = EightKeys
                  /\ d.items.module = PyStr(r.module)
                  /\ d.items.endpoint = PyStr(r.endpoint)
                  /\ d.items.method = PyStr(r.method)
                  /\ d.items.success = PyBool(r.success)
                  /\ d.items.status_code = PyNum(r.status_code)
                  /\ d.items.response_time_ms = PyNum(r.response_time_ms)
                  /\ d.items.error_message = PyStr(r.error_message)
                  /\ d.items.response_body = r.response_body

\* C10: when save_results writes the file, the JSON array it writes loads
\* back as the log (same length and order, the eight keys, the values of
\* each record), and the log is the same before and after.
C10_SaveRoundTrip ==
    [][(file.state # "written" /\ file'.state = "written") =>
          /\ results' = results
          /\ Reloaded']_vars

\* C10 witness: a written file that loads back as the log, the log holding
\* a parsed JSON body next to a raw text body.
C10_Witness ==
    /\ file.state = "written"
    /\ \E i \in 1..Len(results) : results[i].response_body.py = "dict"
    /\ \E j \in 1..Len(results) : results[j].response_body = PyStr(BodyPlain)
    /\ Reloaded

\* _print_summary has printed its report
SummaryPrinted == DOMAIN summary # {}

\* C11: the output file is touched only after _print_summary has completed;
\* when the write fails nothing catches the failure: the process ends at
\* that point, the summary printed, and sys.exit(1 if failed > 0 else 0) is
\* never reached.
C11_SaveFailureIsFatal ==
    /\ [][file' # file =>
            /\ pc = "ran"
            /\ SummaryPrinted
            /\ summary' = summary]_vars
    /\ [](file.state = "failed" =>
            /\ pc = "crashed"
            /\ SummaryPrinted
            /\ exit_code = << 1 >>)
    /\ [][file.state = "failed" => FALSE]_vars

\* C11 witness: the write failed after a summary of 113 passed records and
\* the process ended with the status of an uncaught exception.
C11_Witness ==
    /\ file.state = "failed"
    /\ pc = "crashed"
    /\ SummaryPrinted
    /\ summary.total = 113
    /\ summary.failed = 0
    /\ exit_code = << 1 >>

\* the (method, endpoint) pairs of the records of the log
RecordKeys ==
    {<< results[i].method, results[i].endpoint >> : i \in 1..Len(results)}

\* the (method, path) pairs of the test_get / test_post statements
CallKeys ==
    LET calls == LiteralCalls
    IN  {<< IF calls[i].op = "test_get" THEN "GET" ELSE "POST", calls[i].path >> :
            i \in 1..Len(calls)}

\* C12: there are no retries: whatever a request resolves to, the run goes
\* on to the next statement, so no two records of the log share method and
\* endpoint, and a completed run holds exactly one record for each of the
\* 113 (method, path) pairs of the fixed list.
C12_NoRetries ==
    /\ [](Cardinality(RecordKeys) = Len(results))
    /\ [](pc \in {"summary", "ran", "exit", "done", "crashed"} =>
            /\ RecordKeys = CallKeys
            /\ Cardinality(RecordKeys) = 113)
    /\ [][pc = "run" =>
            \/ pc' = "interrupted"
            \/ << group', step', pc' >> # << group, step, pc >>]_vars

\* C12 witness: a completed run of 113 records with distinct (method,
\* endpoint) pairs, in which every request but one failed.
C12_Witness ==
    /\ pc = "done"
    /\ server.kind = "Exception"
    /\ Cardinality({i \in 1..Len(results) : ~results[i].success}) = 112
    /\ Cardinality(RecordKeys) = 113

\* the last request was a test_get / test_post call that built a record
Constructed ==
    /\ call.op \in {"test_get", "test_post"}
    /\ Len(call.constructed) = 1

\* C13 as stated: no field of a record changes between the moment the record
\* is constructed and the end of the run: the record of a call in the log is
\* the TestResult as the call constructed it.
C13_NeverMutatedAfterCreation ==
    Constructed => LastRecord = call.constructed[1]

\* C13 amended: a call creates one record; after its construction only
\* error_message is assigned, on a response other than 200 and before the
\* record is appended; once in the log no record changes until the end of
\* the run: later calls, the summary and the save step leave it as it is.
C13_NeverMutatedOnceLogged ==
    /\ [][/\ Len(results') \in {Len(results), Len(results) + 1}
          /\ \A i \in 1..Len(results) : results'[i] = results[i]]_vars
    /\ [](Constructed =>
            /\ LastRecord =
                  [call.constructed[1] EXCEPT !.error_message = LastRecord.error_message]
            /\ LastRecord # call.constructed[1] =>
                  /\ call.outcome.kind = "response"
                  /\ call.outcome.status_code # 200
                  /\ call.constructed[1].error_message = "")

\* C13 witness: the run has ended, the file written, and the record of the
\* last call, constructed with an empty error_message and given
\* "Expected 200, got 404" before it was appended, is in the log as appended.
C13_Witness ==
    /\ pc = "done"
    /\ file.state = "written"
    /\ Constructed
    /\ call.constructed[1].error_message = ""
    /\ LastRecord.error_message = "Expected 200, got 404"
    /\ LastRecord.endpoint = call.path

\* C14: an operator interrupt inside a test_get / test_post call or inside
\* the Swagger UI check is not converted into a record or a verdict: the
\* step it arrives in ends the run and leaves the log, the summary and the
\* file as they were; the log then holds exactly the records of the calls
\* made before, nothing is printed or saved, and no step follows.
C14_InterruptEndsRun ==
    /\ [][call' # call /\ call'.outcome.kind = "KeyboardInterrupt" =>
            /\ pc' = "interrupted"
            /\ results' = results
            /\ swagger' = swagger
            /\ summary' = summary
            /\ file' = file]_vars
    /\ [](pc = "interrupted" =>
            /\ call.outcome.kind = "KeyboardInterrupt"
            /\ Len(results) = CallsDone
            /\ ~SummaryPrinted
            /\ file = NoFile)
    /\ [][pc = "interrupted" => FALSE]_vars

\* C14 witness: the operator interrupted the last call of the last group;
\* the log holds the 112 records of the calls before, no summary was
\* printed and no file written.
C14_Witness ==
    /\ pc = "interrupted"
    /\ call.op \in {"test_get", "test_post"}
    /\ call.outcome.kind = "KeyboardInterrupt"
    /\ Len(call.constructed) = 0
    /\ Len(results) = 112
    /\ ~SummaryPrinted
    /\ file = NoFile
====
